---- MODULE Spec2Model ----
(***************************************************************************)
(* Model of the fixture-placement PythonPart:                              *)
(*   SnapToSolid  (PythonPartScripts/FixturePlacement/SnapToSolid.py)      *)
(*                                                                         *)
(* Numbers.  Every real quantity (coordinate, vector component, matrix     *)
(* entry, distance, tolerance) is a fixed-point integer with unit Den:     *)
(* the real r is stored as r * Den.  The inputs are chosen so that every   *)
(* product and quotient the code forms is exact in this representation.    *)
(*                                                                         *)
(* Matrices.  A Matrix3D is a 4x4 tuple of rows.  The host API transforms  *)
(* with row vectors (v * M), so M1 * M2 applies M1 first, rows 1..3 hold   *)
(* the images of the local X, Y, Z axes and row 4 holds the translation.   *)
(***************************************************************************)
EXTENDS Integers, Sequences, FiniteSets, TLC

\* The fixed-point unit, the real 1.0: the length of the integer vector
\* (0, 3, 4), so that the sloping unit normal (0, 0.6, 0.8) is <<0, 3, 4>>.
Den == CHOOSE d \in 1..7 : d * d = 3 * 3 + 4 * 4

----------------------------------------------------------------------------
(* Vector3D / Point3D arithmetic *)

Vec(x, y, z) == <<x * Den, y * Den, z * Den>>

Abs(a) == IF a < 0 THEN -a ELSE a

VecSub(p, q) == <<p[1] - q[1], p[2] - q[2], p[3] - q[3]>>

VecScale(v, k) == <<v[1] * k, v[2] * k, v[3] * k>>

\* Vector3D.DotProduct
DotProduct(a, b) == (a[1] * b[1] + a[2] * b[2] + a[3] * b[3]) \div Den

CrossProduct(a, b) ==
    << (a[2] * b[3] - a[3] * b[2]) \div Den,
       (a[3] * b[1] - a[1] * b[3]) \div Den,
       (a[1] * b[2] - a[2] * b[1]) \div Den >>

\* Vector3D.IsZero
IsZero(v) == v = <<0, 0, 0>>

\* the length of a vector (the vectors used all have a representable length)
Length(v) ==
    LET q == v[1] * v[1] + v[2] * v[2] + v[3] * v[3]
    IN  CHOOSE l \in 0..(Abs(v[1]) + Abs(v[2]) + Abs(v[3])) : l * l = q

\* the unit vector of a non-zero vector
Normalize(v) ==
    LET l == Length(v)
    IN  <<(v[1] * Den) \div l, (v[2] * Den) \div l, (v[3] * Den) \div l>>

----------------------------------------------------------------------------
(* Matrix3D *)

\* Matrix3D(): the identity
IdentityMatrix ==
    << <<Den, 0, 0, 0>>,
       <<0, Den, 0, 0>>,
       <<0, 0, Den, 0>>,
       <<0, 0, 0, Den>> >>

\* Matrix3D * Matrix3D
MatMul(A, B) ==
    LET e(i, j) == (A[i][1] * B[1][j] + A[i][2] * B[2][j]
                    + A[i][3] * B[3][j] + A[i][4] * B[4][j]) \div Den
    IN  << <<e(1, 1), e(1, 2), e(1, 3), e(1, 4)>>,
           <<e(2, 1), e(2, 2), e(2, 3), e(2, 4)>>,
           <<e(3, 1), e(3, 2), e(3, 3), e(3, 4)>>,
           <<e(4, 1), e(4, 2), e(4, 3), e(4, 4)>> >>

\* Vector3D * Matrix3D: a direction is transformed by the rotation block only
VecMul(v, M) ==
    << (v[1] * M[1][1] + v[2] * M[2][1] + v[3] * M[3][1]) \div Den,
       (v[1] * M[1][2] + v[2] * M[2][2] + v[3] * M[3][2]) \div Den,
       (v[1] * M[1][3] + v[2] * M[2][3] + v[3] * M[3][3]) \div Den >>

\* Matrix3D.GetTranslationVector
GetTranslationVector(M) == <<M[4][1], M[4][2], M[4][3]>>

\* the matrix whose rows are the images r1, r2, r3 of the local axes
RotationRows(r1, r2, r3) ==
    << <<r1[1], r1[2], r1[3], 0>>,
       <<r2[1], r2[2], r2[3], 0>>,
       <<r3[1], r3[2], r3[3], 0>>,
       <<0, 0, 0, Den>> >>

\* the half turn about the unit axis u: v -> 2 (v.u) u - v
HalfTurn(u) ==
    LET img(v) == VecSub(VecScale(u, (2 * DotProduct(v, u)) \div Den), v)
    IN  RotationRows(img(Vec(1, 0, 0)), img(Vec(0, 1, 0)), img(Vec(0, 0, 1)))

\* a coordinate axis perpendicular to the unit coordinate axis a:
\* the cyclically next one for which = 1, the one after it for which = 2
PerpendicularAxis(a, which) ==
    LET k == CHOOSE i \in 1..3 : a[i] # 0
        n == ((k - 1 + which) % 3) + 1
    IN  [i \in 1..3 |-> IF i = n THEN Den ELSE 0]

\* the cross-product matrix of v: K w = v x w
CrossMatrix(v) == << <<0, -v[3], v[2]>>, <<v[3], 0, -v[1]>>, <<-v[2], v[1], 0>> >>

\* variant: the second-order term of the formula is left out
Rodrigues_FirstOrder(K, c) ==
    LET R(i, j) == (IF i = j THEN Den ELSE 0) + K[i][j]
    IN  RotationRows(<<R(1, 1), R(2, 1), R(3, 1)>>,
                     <<R(1, 2), R(2, 2), R(3, 2)>>,
                     <<R(1, 3), R(2, 3), R(3, 3)>>)

\* Rodrigues' formula R = I + K + K.K / (1 + c) for the cross-product matrix K
\* of a x b and c = a.b, a and b unit vectors that are not opposite
Rodrigues(K, c) ==
    LET KK(i, j) == K[i][1] * K[1][j] + K[i][2] * K[2][j] + K[i][3] * K[3][j]
        R(i, j) == (IF i = j THEN Den ELSE 0) + K[i][j] + KK(i, j) \div (Den + c)
    IN  \* R is the column-vector form (R a = b); the rows are its columns
        RotationRows(<<R(1, 1), R(2, 1), R(3, 1)>>,
                     <<R(1, 2), R(2, 2), R(3, 2)>>,
                     <<R(1, 3), R(2, 3), R(3, 3)>>)

\* the rotation that turns the unit vector a into the unit vector b about
\* their common perpendicular.  For opposite vectors the common perpendicular
\* is not defined and the host turns by 180 degrees about an axis
\* perpendicular to a; which one is the host's choice, given here by `anti`.
RotateUnit(a, b, anti) ==
    IF DotProduct(a, b) = -Den
    THEN HalfTurn(PerpendicularAxis(a, anti))
    ELSE Rodrigues(CrossMatrix(CrossProduct(a, b)), DotProduct(a, b))

\* Matrix3D.SetRotation(from, to): the rotation that turns the direction of
\* `from` into the direction of `to`.  A zero vector has no direction; what
\* the host then does is its choice (ZeroRotations).  Computed here is the
\* matrix of a host that leaves it as it was, the identity of Matrix3D(); the
\* call of a host that fills it with NaN returns NotANumber.
SetRotation(from, to, anti) ==
    IF IsZero(from) \/ IsZero(to)
    THEN IdentityMatrix
    ELSE RotateUnit(Normalize(from), Normalize(to), anti)

\* what a host can make of SetRotation with a zero vector: leave the matrix
\* the identity, or divide by the zero length and fill it with NaN
ZeroRotations == {"identity", "nan"}

\* cosine and sine of an Angle of q quarter turns
Cos(q) == CASE q % 4 = 0 -> Den [] q % 4 = 2 -> -Den [] OTHER -> 0
Sin(q) == CASE q % 4 = 1 -> Den [] q % 4 = 3 -> -Den [] OTHER -> 0

\* variant: the twist turns about the X axis
RotationAboutZ_AboutX(M, q) ==
    MatMul(M, RotationRows(Vec(1, 0, 0), <<0, Cos(q), Sin(q)>>, <<0, -Sin(q), Cos(q)>>))

\* Matrix3D.Rotation(Line3D(0,0,0, 0,0,1), angle): the matrix followed by the
\* rotation about the global Z axis by `angle` (counter-clockwise)
RotationAboutZ(M, q) ==
    MatMul(M, RotationRows(<<Cos(q), Sin(q), 0>>, <<-Sin(q), Cos(q), 0>>, Vec(0, 0, 1)))

\* Matrix3D.SetTranslation
SetTranslation(t) ==
    << <<Den, 0, 0, 0>>,
       <<0, Den, 0, 0>>,
       <<0, 0, Den, 0>>,
       <<t[1], t[2], t[3], Den>> >>

\* variant: for a vertical normal step 1 turns by a quarter instead of being skipped
calc_placement_matrix_Turned(normal_vec, placement_pnt, z_rotation, anti) ==
    LET normal_vec_xy == <<normal_vec[1], normal_vec[2], 0>>
        pre_rotate1 == IF ~IsZero(normal_vec_xy)
                       THEN SetRotation(Vec(1, 0, 0), normal_vec_xy, anti)
                       ELSE RotationAboutZ(IdentityMatrix, 1)
        pre_rotate == RotationAboutZ(pre_rotate1, z_rotation)
        align_with_nv == SetRotation(Vec(0, 0, 1), VecScale(normal_vec, -1), anti)
        translate_to_global == SetTranslation(placement_pnt)
    IN  MatMul(MatMul(pre_rotate, align_with_nv), translate_to_global)

\* SnapToSolid._calc_placement_matrix
calc_placement_matrix(normal_vec, placement_pnt, z_rotation, anti) ==
    LET \* step 1
        normal_vec_xy == <<normal_vec[1], normal_vec[2], 0>>
        pre_rotate1 == IF ~IsZero(normal_vec_xy)
                       THEN SetRotation(Vec(1, 0, 0), normal_vec_xy, anti)
                       ELSE IdentityMatrix
        \* step 2
        pre_rotate == RotationAboutZ(pre_rotate1, z_rotation)
        \* step 3
        align_with_nv == SetRotation(Vec(0, 0, 1), VecScale(normal_vec, -1), anti)
        \* step 4
        translate_to_global == SetTranslation(placement_pnt)
    IN  MatMul(MatMul(pre_rotate, align_with_nv), translate_to_global)

----------------------------------------------------------------------------
(* The host's model: polyhedra and elements *)

\* the face limit of the nearest-face search, 2 ** 14
MaxFacesCount == 16384

\* the default of snap_by_point's tolerance argument, 20.0
DefaultTolerance == 20

\* the offsets, in whole units, at which query points are placed around faces
MaxOffset == 1

\* the largest twist of a snap call, in quarter turns
MaxTwist == 1

Face(nv, vertex) == [nv |-> nv, vertex |-> vertex]

\* a cube of side 2 * DefaultTolerance with a corner in the origin
CubeFaces ==
    LET s == 2 * DefaultTolerance
    IN  << Face(Vec(0, 0, -1), Vec(0, 0, 0)),
           Face(Vec(0, 0, 1),  Vec(0, 0, s)),
           Face(Vec(-1, 0, 0), Vec(0, 0, 0)),
           Face(Vec(1, 0, 0),  Vec(s, 0, 0)),
           Face(Vec(0, -1, 0), Vec(0, 0, 0)),
           Face(Vec(0, 1, 0),  Vec(0, s, 0)) >>

\* a triangular prism along X whose third side slopes with normal (0, 0.6, 0.8)
\* and passes through the point (t, t, 2t - 1)
PrismFaces ==
    LET t == DefaultTolerance
        s == 2 * t
    IN  << Face(<<0, 3, 4>>,   Vec(0, (11 * t - 4) \div 3, 0)),
           Face(Vec(0, 0, -1), Vec(0, 0, 0)),
           Face(Vec(0, -1, 0), Vec(0, 0, 0)),
           Face(Vec(-1, 0, 0), Vec(0, 0, 0)),
           Face(Vec(1, 0, 0),  Vec(s, 0, 0)) >>

\* A polyhedron: IsValid(), GetFacesCount() and its faces.  Face i (from 0)
\* is faces[(i % Len(faces)) + 1]: the large polyhedra repeat a face pattern.
Polyhedron(valid, count, faces) == [valid |-> valid, count |-> count, faces |-> faces]

MeshNames == {"Empty", "Cube", "Prism", "Limit", "Complex", "Invalid"}

\* "Empty" is Polyhedron3D(); "Limit" has exactly the largest face count the
\* search accepts and "Complex" one face more
MeshOf(name) ==
    CASE name = "Empty"   -> Polyhedron(FALSE, 0, <<>>)
      [] name = "Cube"    -> Polyhedron(TRUE, Len(CubeFaces), CubeFaces)
      [] name = "Prism"   -> Polyhedron(TRUE, Len(PrismFaces), PrismFaces)
      [] name = "Limit"   -> Polyhedron(TRUE, MaxFacesCount, CubeFaces)
      [] name = "Complex" -> Polyhedron(TRUE, MaxFacesCount + 1, CubeFaces)
      [] name = "Invalid" -> Polyhedron(FALSE, 0, <<>>)

GetFacesCount(name) == MeshOf(name).count

\* the face pattern repeats along the faces of the polyhedron
Cyclic(faces, face_index) == faces[(face_index % Len(faces)) + 1]

FaceOf(name, face_index) == Cyclic(MeshOf(name).faces, face_index)

\* Polyhedron3D.GetNormalVectorOfFace
GetNormalVectorOfFace(name, face_index) == FaceOf(name, face_index).nv

\* the first vertex of the first edge of the face
FaceVertex(name, face_index) == FaceOf(name, face_index).vertex

\* BaseElementAdapter(): no element
NoElement == "NoElement"

\* the model elements of the document
Elements == {"CubeElement", "PrismElement", "ComplexElement", "InvalidElement", "BRepElement"}

\* BaseElementAdapter.GetModelGeometry: the polyhedron of the element, or
\* "BRep" for an element whose geometry is not a Polyhedron3D
GetModelGeometry(element) ==
    CASE element = "CubeElement"    -> "Cube"
      [] element = "PrismElement"   -> "Prism"
      [] element = "ComplexElement" -> "Complex"
      [] element = "InvalidElement" -> "Invalid"
      [] element = "BRepElement"    -> "BRep"

\* isinstance(geometry, Polyhedron3D)
IsPolyhedron(geometry) == geometry \in MeshNames

\* AllplanGeo.Point2D(): the default view point
DefaultViewPoint == <<0, 0>>

ViewPoints == {DefaultViewPoint, <<3, 4>>}

\* query points: the centre of the cube (every face DefaultTolerance away),
\* points at offsets 0..MaxOffset below its top face, and points outside it
\* whose nearest planes are DefaultTolerance + 1..MaxOffset away
Points ==
    LET t == DefaultTolerance
    IN  {Vec(t, t, t)}
        \cup {Vec(t, t, 2 * t - k) : k \in 0..MaxOffset}
        \cup {Vec(3 * t + k, 3 * t + k, 3 * t + k) : k \in 1..MaxOffset}

\* query points of the nearest-face search on its own: also points at
\* offsets 0..MaxOffset inside the +X face of the cube
FacePoints ==
    LET t == DefaultTolerance
    IN  Points \cup {Vec(2 * t - k, t - 1, t) : k \in 0..MaxOffset}

Tolerances == {k * Den : k \in (0..MaxOffset) \cup {DefaultTolerance}}

Twists == 0..MaxTwist

----------------------------------------------------------------------------
(* SnapToSolid._find_nearest_face *)

\* min(distances)
Min(S) == CHOOSE m \in S : \A x \in S : m <= x

\* The result of a call: raised = "" and the returned (index, distance), or
\* the ValueError raised.  scanned is the number of faces the loop visited.
Returned(index, distance, scanned) ==
    [raised |-> "", index |-> index, distance |-> distance, scanned |-> scanned]

Raised(message) ==
    [raised |-> "ValueError", message |-> message, scanned |-> 0]

\* variant: the limit itself is rejected
IsTooComplex_Inclusive(faces_count) == faces_count >= MaxFacesCount

IsTooComplex(faces_count) == faces_count > MaxFacesCount

\* the list `distances` of the search: for every face in turn the distance
\* of the point from the plane of the face
Distances(polyhedron_, point) ==
    [i \in 1..GetFacesCount(polyhedron_) |->
        Abs(DotProduct(GetNormalVectorOfFace(polyhedron_, i - 1),
                       VecSub(point, FaceVertex(polyhedron_, i - 1))))]

\* variant: among equal entries the last one is found
IndexOf_Last(distances, faces_count, value) ==
    (CHOOSE i \in 1..faces_count :
        /\ distances[i] = value
        /\ \A j \in (i + 1)..faces_count : distances[j] # value) - 1

\* distances.index(value): the position, from 0, of the first entry equal to value
IndexOf(distances, faces_count, value) ==
    (CHOOSE i \in 1..faces_count :
        /\ distances[i] = value
        /\ \A j \in 1..(i - 1) : distances[j] # value) - 1

\* return distances.index(min_distance), min_distance
NearestOf(distances, faces_count, min_distance) ==
    Returned(IndexOf(distances, faces_count, min_distance), min_distance, faces_count)

\* min(distances) and the return, for the list the loop has built
SearchResult(distances, faces_count) ==
    IF faces_count = 0
    THEN \* min() of an empty list
         Raised("min() arg is an empty sequence")
    ELSE NearestOf(distances, faces_count, Min({distances[i] : i \in 1..faces_count}))

find_nearest_face(polyhedron_, point) ==
    IF IsTooComplex(GetFacesCount(polyhedron_))
    THEN Raised("The polyhedron is too complex")
    ELSE SearchResult(Distances(polyhedron_, point), GetFacesCount(polyhedron_))

----------------------------------------------------------------------------
(* The SnapToSolid session *)

VARIABLES
    polyhedron,      \* self._polyhedron: the name of the reference polyhedron
    ref_element,     \* self._ref_element
    normal_vec,      \* self._normal_vec: the last known normal vector
    host_half_turn,  \* the host's choice of axis in SetRotation of opposite vectors
    prev,            \* the three fields as they were when the last call began
    call,            \* the last call: the operation, its arguments, the host's answers
    ret,             \* what the last call returned or raised
    last_hit_normal, \* history: the normal the most recent successful hit reported
    interactor       \* the FixturePlacementInteractor owning the session, if any

vars == <<polyhedron, ref_element, normal_vec, host_half_turn, prev, call, ret,
          last_hit_normal, interactor>>

\* the session is used on its own, without an interactor
NoInteractor == [input_mode |-> "NoInteractor"]

Fields == [polyhedron |-> polyhedron, ref_element |-> ref_element, normal_vec |-> normal_vec]

\* a Matrix3D returned by a snap call; `search` is what the call's
\* _find_nearest_face returned or raised ("skipped" when it was not called) and
\* `cancelled` whether the call cancelled the highlighting
ReturnedMatrix(matrix, search, cancelled) ==
    [raised |-> "", matrix |-> matrix, search |-> search, cancelled |-> cancelled]

Skipped == [raised |-> "skipped", scanned |-> 0]

NoHit == [face_detected |-> FALSE]

FaceHit(face_nv, intersection_point) ==
    [face_detected |-> TRUE, FaceNv |-> face_nv, IntersectionPoint |-> intersection_point]

\* SnapToSolid.__init__
Init ==
    /\ polyhedron = "Empty"
    /\ ref_element = NoElement
    /\ normal_vec = Vec(0, 0, 1)
    /\ host_half_turn \in 1..2
    /\ prev = [polyhedron |-> "Empty", ref_element |-> NoElement, normal_vec |-> Vec(0, 0, 1)]
    /\ call = [op |-> "init"]
    /\ ret = [raised |-> "none"]
    /\ last_hit_normal = Vec(0, 0, 1)
    /\ interactor = NoInteractor

\* snap_by_point, the element search: self._ref_element afterwards.
\* `selected` is the element SelectGeometryElement found, NoElement for none.
RefElementAfterSearch(ref, view_pnt, selected) ==
    IF view_pnt # DefaultViewPoint
    THEN IF selected # NoElement THEN selected ELSE NoElement
    ELSE ref

\* variant: the geometry of the found element is taken without the validity test
PolyhedronAfterSearch_Unchecked(poly, view_pnt, selected) ==
    IF /\ view_pnt # DefaultViewPoint
       /\ selected # NoElement
       /\ IsPolyhedron(GetModelGeometry(selected))
    THEN GetModelGeometry(selected)
    ELSE poly

\* snap_by_point, the element search: self._polyhedron afterwards
PolyhedronAfterSearch(poly, view_pnt, selected) ==
    IF /\ view_pnt # DefaultViewPoint
       /\ selected # NoElement
       /\ IsPolyhedron(GetModelGeometry(selected))
       /\ MeshOf(GetModelGeometry(selected)).valid
    THEN GetModelGeometry(selected)
    ELSE poly

\* self._polyhedron != <the placement matrix>: a Polyhedron3D and a Matrix3D
\* are objects of different classes and never compare equal
PolyhedronDiffersFrom(poly, matrix) == TRUE

\* snap_by_point, "perform snap": what _find_nearest_face returns or raises
\* there, Skipped when the snap is not performed
SnapSearch(poly, matrix, input_pnt) ==
    IF PolyhedronDiffersFrom(poly, matrix)
    THEN find_nearest_face(poly, input_pnt)
    ELSE Skipped

\* variant: the too complex polyhedron is kept
PolyhedronAfterSnap_Keep(poly, search) == poly

\* snap_by_point, "perform snap": self._polyhedron afterwards
PolyhedronAfterSnap(poly, search) ==
    IF search.raised = "ValueError" THEN "Empty" ELSE poly

\* variant: the tolerance bound is exclusive
NormalAfterSnap_Strict(poly, normal, search, tolerance) ==
    IF search.raised = "" /\ search.distance < tolerance
    THEN GetNormalVectorOfFace(poly, search.index)
    ELSE normal

\* variant: an out-of-tolerance face resets the normal
NormalAfterSnap_Reset(poly, normal, search, tolerance) ==
    IF search.raised = ""
    THEN IF search.distance <= tolerance
         THEN GetNormalVectorOfFace(poly, search.index)
         ELSE Vec(0, 0, 1)
    ELSE normal

\* snap_by_point, "perform snap": self._normal_vec afterwards
NormalAfterSnap(poly, normal, search, tolerance) ==
    IF search.raised = "" /\ search.distance <= tolerance
    THEN GetNormalVectorOfFace(poly, search.index)
    ELSE normal

\* variant: the placement point is moved onto the nearest face
PointSnapPlacement_OnFace(input_pnt, poly, search) ==
    IF search.raised = "" THEN FaceVertex(poly, search.index) ELSE input_pnt

\* snap_by_point: the placement point of the returned matrix
PointSnapPlacement(input_pnt, poly, search) == input_pnt

\* what a method leaves behind: the three fields and the returned value
Outcome(poly, ref, normal, returned) ==
    [polyhedron |-> poly, ref_element |-> ref, normal_vec |-> normal, ret |-> returned]

\* variant: the matrix is built with the normal the call found, not the one
\* it leaves
SnapOutcome_Stale(poly, ref, normal, search, input_pnt, rotation, tolerance, anti) ==
    Outcome(PolyhedronAfterSnap(poly, search),
            ref,
            NormalAfterSnap(poly, normal, search, tolerance),
            ReturnedMatrix(
                calc_placement_matrix(normal,
                                 PointSnapPlacement(input_pnt, poly, search),
                                 rotation, anti),
                search, search.raised = "ValueError"))

\* snap_by_point from the nearest-face search on: the fields the call leaves
\* and the matrix it returns, `search` being what _find_nearest_face returned
\* or raised
SnapOutcome(poly, ref, normal, search, input_pnt, rotation, tolerance, anti) ==
    Outcome(PolyhedronAfterSnap(poly, search),
            ref,
            NormalAfterSnap(poly, normal, search, tolerance),
            ReturnedMatrix(
                calc_placement_matrix(NormalAfterSnap(poly, normal, search, tolerance),
                                 PointSnapPlacement(input_pnt, poly, search),
                                 rotation, anti),
                search, search.raised = "ValueError"))

\* snap_by_point after the element search, "perform snap": poly, ref and
\* normal are the fields the element search has left
PerformSnap(poly, ref, normal, input_pnt, rotation, tolerance, anti) ==
    SnapOutcome(poly, ref, normal,
                SnapSearch(poly, calc_placement_matrix(normal, input_pnt, rotation, anti),
                           input_pnt),
                input_pnt, rotation, tolerance, anti)

\* SnapToSolid.snap_by_point on the session `self`.  `selected` is the element
\* SelectGeometryElement found (NoElement for none), `anti` the host's
\* SetRotation convention.
snap_by_point(self, input_pnt, rotation, view_pnt, selected, tolerance, anti) ==
    PerformSnap(PolyhedronAfterSearch(self.polyhedron, view_pnt, selected),
                RefElementAfterSearch(self.ref_element, view_pnt, selected),
                self.normal_vec, input_pnt, rotation, tolerance, anti)

\* variant: a miss resets the normal
NormalAfterRay_Reset(normal, selected, hit) ==
    IF selected # NoElement /\ hit.face_detected THEN hit.FaceNv ELSE Vec(0, 0, 1)

\* snap_by_ray: self._normal_vec afterwards
NormalAfterRay(normal, selected, hit) ==
    IF selected # NoElement /\ hit.face_detected THEN hit.FaceNv ELSE normal

\* variant: the placement point is never moved onto the face
RayPlacement_Input(input_pnt, selected, hit) == input_pnt

\* snap_by_ray: the placement point of the returned matrix
RayPlacement(input_pnt, selected, hit) ==
    IF selected # NoElement /\ hit.face_detected THEN hit.IntersectionPoint ELSE input_pnt

\* SnapToSolid.snap_by_ray on the session `self`.  `selected` is the element
\* SelectElement detected (NoElement for none), `hit` the answer of
\* SelectPolyhedronFace for it.
snap_by_ray(self, input_pnt, rotation, selected, hit, anti) ==
    Outcome(self.polyhedron,
            selected,
            NormalAfterRay(self.normal_vec, selected, hit),
            ReturnedMatrix(
                calc_placement_matrix(NormalAfterRay(self.normal_vec, selected, hit),
                                 RayPlacement(input_pnt, selected, hit),
                                 rotation, anti),
                Skipped, FALSE))

\* the elements the filter of the ray selection accepts: polyhedron geometry
RaySelectable == {e \in Elements : IsPolyhedron(GetModelGeometry(e))}

\* the answers SelectPolyhedronFace can give for an element: no face, or a
\* face of its polyhedron and a point of that face's plane
FaceHits(element) ==
    {NoHit} \cup
    UNION {{FaceHit(face.nv, p) :
                p \in {face.vertex} \cup
                      {q \in Points : DotProduct(face.nv, VecSub(q, face.vertex)) = 0}} :
           face \in {FaceOf(GetModelGeometry(element), i) :
                        i \in 0..(Len(MeshOf(GetModelGeometry(element)).faces) - 1)}}

----------------------------------------------------------------------------
(* What the host and the caller can tell about a call c made on a session   *)
(* whose fields were `before`: stated from the arguments and the host's     *)
(* answers alone, for the history variable and the properties below.        *)

PlaneDistance(mesh, j, point) ==
    Abs(DotProduct(FaceOf(mesh, j).nv, VecSub(point, FaceOf(mesh, j).vertex)))

\* the distances of the point from the planes of all faces, by face index
PlaneDistances(mesh, point) ==
    [j \in 0..(MeshOf(mesh).count - 1) |-> PlaneDistance(mesh, j, point)]

\* in the list d: an entry no entry is less than, and no entry before it equal
IsFirstLeast(d, i) ==
    /\ \A j \in DOMAIN d : d[i] <= d[j]
    /\ \A j \in 0..(i - 1) : d[j] # d[i]

\* a face no face is nearer than, and no face before it as near
IsNearestFace(mesh, i, point) == IsFirstLeast(PlaneDistances(mesh, point), i)

NearestFace(mesh, point) ==
    CHOOSE i \in 0..(MeshOf(mesh).count - 1) : IsNearestFace(mesh, i, point)

Searchable(mesh) == MeshOf(mesh).count >= 1 /\ MeshOf(mesh).count <= 2 ^ 14

\* the call brings a new reference: an element was found under the cursor
NewReference(c) ==
    c.op = "snap_by_point" /\ c.view_pnt # <<0, 0>> /\ c.selected # NoElement

ValidPolyhedron(element) ==
    element \in {"CubeElement", "PrismElement", "ComplexElement"}

\* the mesh a snap_by_point call has to snap to
SnapTarget(c, before) ==
    IF NewReference(c) /\ ValidPolyhedron(c.selected)
    THEN GetModelGeometry(c.selected)
    ELSE before.polyhedron

\* a successful hit: a face hit in ray mode, an in-tolerance nearest face in
\* point mode
SuccessfulHit(c, before) ==
    CASE c.op = "snap_by_ray" -> c.selected # NoElement /\ c.hit.face_detected
      [] c.op = "snap_by_point" ->
            /\ Searchable(SnapTarget(c, before))
            /\ PlaneDistance(SnapTarget(c, before),
                             NearestFace(SnapTarget(c, before), c.input_pnt),
                             c.input_pnt) <= c.tolerance
      [] OTHER -> FALSE

HitNormal(c, before) ==
    IF c.op = "snap_by_ray"
    THEN c.hit.FaceNv
    ELSE MeshOf(SnapTarget(c, before)).faces[
             NearestFace(SnapTarget(c, before), c.input_pnt) + 1].nv

----------------------------------------------------------------------------
\* no call is under way: the session waits for the next one
Idle == call.op \in {"init", "idle"}

\* a call runs to its end on the session and leaves its outcome
Run(the_call, outcome) ==
    /\ prev' = Fields
    /\ call' = the_call
    /\ polyhedron' = outcome.polyhedron
    /\ ref_element' = outcome.ref_element
    /\ normal_vec' = outcome.normal_vec
    /\ ret' = outcome.ret
    /\ last_hit_normal' = IF SuccessfulHit(the_call, Fields)
                          THEN HitNormal(the_call, Fields)
                          ELSE last_hit_normal
    /\ UNCHANGED <<host_half_turn, interactor>>

SnapByPointCall ==
    /\ Idle
    /\ \E input_pnt \in Points, rotation \in Twists, view_pnt \in ViewPoints,
          tolerance \in Tolerances :
        \E selected \in (IF view_pnt = DefaultViewPoint THEN {NoElement}
                         ELSE Elements \cup {NoElement}) :
            \E outcome \in {snap_by_point(Fields, input_pnt, rotation, view_pnt, selected,
                                          tolerance, host_half_turn)} :
                Run([op |-> "snap_by_point", input_pnt |-> input_pnt, rotation |-> rotation,
                     view_pnt |-> view_pnt, selected |-> selected, tolerance |-> tolerance],
                    outcome)

SnapByRayCall ==
    /\ Idle
    /\ \E input_pnt \in Points, rotation \in Twists, selected \in RaySelectable \cup {NoElement} :
        \E hit \in (IF selected = NoElement THEN {NoHit} ELSE FaceHits(selected)) :
            \E outcome \in {snap_by_ray(Fields, input_pnt, rotation, selected, hit,
                                        host_half_turn)} :
                Run([op |-> "snap_by_ray", input_pnt |-> input_pnt, rotation |-> rotation,
                     selected |-> selected, hit |-> hit],
                    outcome)

\* the caller has taken the returned matrix; the session waits for the next call
Return ==
    /\ ~Idle
    /\ call' = [op |-> "idle"]
    /\ ret' = [raised |-> "none"]
    /\ prev' = Fields
    /\ UNCHANGED <<polyhedron, ref_element, normal_vec, host_half_turn, last_hit_normal,
                   interactor>>

Next == SnapByPointCall \/ SnapByRayCall \/ Return

Spec == Init /\ [][Next]_vars

----------------------------------------------------------------------------
(* The two helpers on their own: the arguments are drawn when the call is   *)
(* made and the helper is applied to them once.                             *)

Pending == [raised |-> "pending"]

FreshSession ==
    /\ polyhedron = "Empty"
    /\ ref_element = NoElement
    /\ normal_vec = Vec(0, 0, 1)
    /\ host_half_turn \in 1..2
    /\ prev = [polyhedron |-> "Empty", ref_element |-> NoElement, normal_vec |-> Vec(0, 0, 1)]
    /\ last_hit_normal = Vec(0, 0, 1)

InitFace ==
    /\ FreshSession
    /\ interactor = NoInteractor
    /\ call \in [op : {"find_nearest_face"}, polyhedron : MeshNames, point : FacePoints]
    /\ ret = Pending

FindNearestFaceCall ==
    /\ call.op = "find_nearest_face"
    /\ ret = Pending
    /\ ret' = find_nearest_face(call.polyhedron, call.point)
    /\ UNCHANGED <<polyhedron, ref_element, normal_vec, host_half_turn, prev, call,
                   last_hit_normal, interactor>>

NextFace == FindNearestFaceCall

SpecFace == InitFace /\ [][NextFace]_vars

\* normal vectors for _calc_placement_matrix: the unit normals of the faces,
\* their opposites, and normals that are not of unit length
FrameNormals ==
    {Vec(1, 0, 0), Vec(-1, 0, 0), Vec(0, 1, 0), Vec(0, -1, 0), Vec(0, 0, 1), Vec(0, 0, -1),
     <<0, 3, 4>>, <<0, -3, 4>>, <<0, 3, -4>>, <<4, 0, 3>>, <<-4, 0, -3>>,
     Vec(0, 0, 2), Vec(3, 0, 0), Vec(0, 3, 4)}

\* every twist that is a whole number of quarter turns
QuarterTurns == 0..3

\* the arguments of a call and the host's treatment of zero vectors
InitFrame ==
    /\ FreshSession
    /\ interactor = NoInteractor
    /\ call \in [op : {"calc_placement_matrix"},
                 normal_vec : FrameNormals \cup {Vec(0, 0, 0)},
                 placement_pnt : Points, z_rotation : QuarterTurns,
                 zero_rotation : ZeroRotations]
    /\ ret = Pending

\* the returned matrix holds NaN entries: it is no transform
NotANumber == [raised |-> "nan"]

\* _calc_placement_matrix hands normal_vec * -1 to SetRotation whatever it is
CalcPlacementMatrixCall ==
    /\ call.op = "calc_placement_matrix"
    /\ ret = Pending
    /\ ret' = IF IsZero(VecScale(call.normal_vec, -1)) /\ call.zero_rotation = "nan"
              THEN NotANumber
              ELSE [raised |-> "",
                    matrix |-> calc_placement_matrix(call.normal_vec, call.placement_pnt,
                                                     call.z_rotation, host_half_turn)]
    /\ UNCHANGED <<polyhedron, ref_element, normal_vec, host_half_turn, prev, call,
                   last_hit_normal, interactor>>

NextFrame == CalcPlacementMatrixCall

SpecFrame == InitFrame /\ [][NextFrame]_vars

----------------------------------------------------------------------------
(* OpeningUtil.create_opening_in_wall                                       *)
(* (PythonPartScripts/FixturePlacement/OpeningUtil.py)                      *)

\* the adapter types of the elements an opening is asked for
ElementTypes == {"WallTier_TypeUUID", "Slab_TypeUUID", "Null_TypeUUID"}

\* variant: every element is taken for a wall
IsWall_Any(wall_element) == TRUE

\* wall_element.GetElementAdapterType().GetGuid() == WallTier_TypeUUID
IsWall(wall_element) == wall_element = "WallTier_TypeUUID"

\* The tolerance 1e-11 of the verticality test, on the scale of the
\* fixed-point numbers: two of their units, so that a difference below the
\* tolerance, one equal to it and one above it can all be told apart.
VerticalTolerance == 2

\* Comparison.Equal(value1, value2, tolerance); whether a difference of
\* exactly the tolerance still counts as equal is the host's (`inclusive`)
ComparisonEqual(value1, value2, tolerance, inclusive) ==
    IF inclusive
    THEN Abs(value1 - value2) <= tolerance
    ELSE Abs(value1 - value2) < tolerance

\* variant: the verticality of the opening is not tested
IsVerticalOpening_Untested(norm_vec, host) == TRUE

\* Comparison.Equal(norm_vec.Z, 0.0, 1e-11)
IsVerticalOpening(norm_vec, host) ==
    ComparisonEqual(norm_vec[3], 0, VerticalTolerance, host.equal_inclusive)

\* Vector3D.To2D
To2D(v) == <<v[1], v[2]>>

\* Vector2D.Orthogonal: the vector turned by 90 degrees; the sense of the
\* turn is the host's (`ccw`)
Orthogonal(v, ccw) == IF ccw THEN <<-v[2], v[1]>> ELSE <<v[2], -v[1]>>

\* variant: the footprint reaches the full width to either side
HalfWidthAlong_Full(adj_vec, width) ==
    <<(adj_vec[1] * width) \div Den, (adj_vec[2] * width) \div Den>>

\* adj_vec * width/2
HalfWidthAlong(adj_vec, width) ==
    <<((adj_vec[1] * width) \div Den) \div 2, ((adj_vec[2] * width) \div Den) \div 2>>

\* Point2D() + translation.To2D - adj_vec * width/2
StartPoint(translation, half) == <<translation[1] - half[1], translation[2] - half[2]>>

\* Point2D() + translation.To2D + adj_vec * width/2
EndPoint(translation, half) == <<translation[1] + half[1], translation[2] + half[2]>>

\* variant: the opening stands on the placement point
BottomOffset_AtPoint(translation, height) == translation[3]

\* translation.Z - height/2
BottomOffset(translation, height) == translation[3] - height \div 2

\* translation.Z + height/2
TopOffset(translation, height) == translation[3] + height \div 2

\* GeneralOpeningElement(opening_props, wall_element, start_point, end_point,
\* False) with the properties the method sets
OpeningElement(wall_element, translation, half, depth, height) ==
    [Type |-> "eNiche",
     VisibleInViewSection3D |-> TRUE,
     Independent2DInteraction |-> FALSE,
     Shape |-> "eRectangle",
     Depth |-> depth,
     SillType |-> "eNone",
     TopPlaneDependency |-> "eAbsElevation",
     BottomPlaneDependency |-> "eAbsElevation",
     BottomOffset |-> BottomOffset(translation, height),
     TopOffset |-> TopOffset(translation, height),
     wall_element |-> wall_element,
     start_point |-> StartPoint(translation, half),
     end_point |-> EndPoint(translation, half)]

\* return model_ele_list
OpeningReturned(model_ele_list) ==
    [raised |-> "", model_ele_list |-> model_ele_list]

\* raise ValueError(message): the empty model_ele_list is dropped
OpeningRaised(message) ==
    [raised |-> "ValueError", message |-> message, model_ele_list |-> <<>>]

\* create_opening_in_wall from "calculate start and end point" on
VerticalOpening(wall_element, norm_vec, translation, width, depth, height, host) ==
    OpeningReturned(
        <<OpeningElement(wall_element, translation,
                         HalfWidthAlong(Orthogonal(To2D(norm_vec), host.orthogonal_ccw),
                                        width),
                         depth, height)>>)

\* create_opening_in_wall after the element test, for the image norm_vec of
\* the local Z axis
OpeningInWall(wall_element, norm_vec, translation, width, depth, height, host) ==
    IF ~IsVerticalOpening(norm_vec, host)
    THEN OpeningRaised("Can only create a vertical openint")
    ELSE VerticalOpening(wall_element, norm_vec, translation, width, depth, height, host)

\* OpeningUtil.create_opening_in_wall; `host` tells the host's conventions
\* in Comparison.Equal and Vector2D.Orthogonal
create_opening_in_wall(wall_element, placement_matrix, width, depth, height, host) ==
    IF ~IsWall(wall_element)
    THEN OpeningRaised("Can only create opening in a wall")
    ELSE OpeningInWall(wall_element,
                       VecMul(Vec(0, 0, 1), placement_matrix),
                       GetTranslationVector(placement_matrix),
                       width, depth, height, host)

\* the largest width, depth and height of an opening, in double units
MaxSize == 2

\* widths, depths and heights: 0, 2, .., 2 * MaxSize
Sizes == {2 * k * Den : k \in 0..MaxSize}

\* normals of placement matrices handed to the method: of vertical faces, of
\* a sloping face and of a horizontal face
OpeningNormals == {Vec(1, 0, 0), Vec(0, -1, 0), <<0, 3, 4>>, Vec(0, 0, 1)}

\* a placement point with three different coordinates
OpeningPoint == Vec(DefaultTolerance, 2 * DefaultTolerance, 3)

\* a rigid matrix that places upright in a wall running obliquely to the axes
ObliqueMatrix ==
    MatMul(RotationRows(Vec(0, 0, 1), <<4, -3, 0>>, <<3, 4, 0>>), SetTranslation(OpeningPoint))

\* the Z components a matrix can give the image of the local Z axis, around
\* the tolerance
Tilts == (0 - VerticalTolerance - 1)..(VerticalTolerance + 1)

\* the matrix with the Z component of the image of local Z set to z
Tilted(M, z) == [M EXCEPT ![3] = [M[3] EXCEPT ![3] = z]]

\* the placement matrices handed to the method
OpeningMatrices ==
    {calc_placement_matrix(n, OpeningPoint, q, h) :
        n \in OpeningNormals, q \in Twists, h \in 1..2}
    \cup {Tilted(ObliqueMatrix, z) : z \in Tilts}

\* the host's conventions
OpeningHosts == [equal_inclusive : BOOLEAN, orthogonal_ccw : BOOLEAN]

InitOpening ==
    /\ FreshSession
    /\ interactor = NoInteractor
    /\ call \in [op : {"create_opening_in_wall"}, wall_element : ElementTypes,
                 placement_matrix : OpeningMatrices,
                 width : Sizes, depth : Sizes, height : Sizes, host : OpeningHosts]
    /\ ret = Pending

CreateOpeningInWallCall ==
    /\ call.op = "create_opening_in_wall"
    /\ ret = Pending
    /\ ret' = create_opening_in_wall(call.wall_element, call.placement_matrix, call.width,
                                     call.depth, call.height, call.host)
    /\ UNCHANGED <<polyhedron, ref_element, normal_vec, host_half_turn, prev, call,
                   last_hit_normal, interactor>>

NextOpening == CreateOpeningInWallCall

SpecOpening == InitOpening /\ [][NextOpening]_vars

----------------------------------------------------------------------------
(* FixturePlacementInteractor: the input modes and the event handlers        *)

\* FixturePlacementInteractor.InputMode
InputModes == {"SELECT", "PLACE", "MOVE"}

\* Python's None
None == "None"

\* MacroPlacementElement(): the empty placement
NoPythonPart == "MacroPlacementElement()"

\* the PythonParts placed in the document, and where each one stands
PythonParts == {"PythonPartA", "PythonPartB"}

PlacedAt(pythonpart) ==
    IF pythonpart = "PythonPartA"
    THEN Vec(DefaultTolerance, DefaultTolerance, 2 * DefaultTolerance)
    ELSE Vec(0, 0, 0)

\* the values of the FixtureFilePath parameter
FixtureFilePaths == {"", "Fixture.pyp", "Fixture.txt"}

\* str.endswith(".pyp")
EndsWithPyp(path) == path = "Fixture.pyp"

\* the values of the SnapByRadioGroup parameter
SnapByRadioGroups == {"SnapByPoint", "SnapByRay"}

\* CoordinateInput after InitFirstElementInput and SetElementFilter
ElementInput == [input |-> "FirstElementInput", element_filter |-> "PythonPart_TypeUUID"]

\* init_placement_coord_input: InitFirstPointValueInput with the angle control
init_placement_coord_input(self) ==
    [self EXCEPT !.coord_input.input = "FirstPointValueInput"]

\* what a handler leaves: the interactor, the value returned, the exception
\* raised and the PythonPart transactions executed
Handled(self, value, raised, transactions) ==
    [self |-> self, value |-> value, raised |-> raised, transactions |-> transactions]

\* variant: the visual script service is kept when SELECT mode is entered
LeaveMode_KeepService(self) ==
    IF self.visual_script_service # None
    THEN [self EXCEPT !.FixtureFilePath = "",
                      !.main_palette = "shown"]
    ELSE IF self.input_mode = "MOVE"
         THEN [self EXCEPT !.hidden = {}]
         ELSE self

\* variant: the hidden PythonPart stays hidden when MOVE mode is left
LeaveMode_KeepHidden(self) ==
    IF self.visual_script_service # None
    THEN [self EXCEPT !.visual_script_service = None,
                      !.FixtureFilePath = "",
                      !.main_palette = "shown"]
    ELSE self

\* input_mode.setter, value SELECT, the first branch: the VS palette is closed
\* and the main palette shown again, or the hidden PythonPart is shown again
LeaveMode(self) ==
    IF self.visual_script_service # None
    THEN [self EXCEPT !.visual_script_service = None,
                      !.FixtureFilePath = "",
                      !.main_palette = "shown"]
    ELSE IF self.input_mode = "MOVE"
         THEN [self EXCEPT !.hidden = {}]
         ELSE self

\* input_mode.setter, value SELECT
SetSelect(self) ==
    [LeaveMode(self) EXCEPT !.selected_pythonpart = NoPythonPart,
                            !.coord_input = ElementInput,
                            !.input_mode = "SELECT"]

\* input_mode.setter, value PLACE, the path being valid
SetPlace(self) ==
    [init_placement_coord_input(self) EXCEPT
        !.main_palette = "closed",
        !.visual_script_service = "VisualScriptService",
        !.input_mode = "PLACE"]

\* input_mode.setter, value MOVE
SetMove(self) ==
    [init_placement_coord_input(self) EXCEPT !.input_mode = "MOVE"]

\* variant: PLACE is entered whatever the path
set_input_mode_Unchecked(self, value) ==
    CASE value = "SELECT" -> Handled(SetSelect(self), None, "", <<>>)
      [] value = "PLACE" -> Handled(SetPlace(self), None, "", <<>>)
      [] OTHER -> Handled(SetMove(self), None, "", <<>>)

\* input_mode.setter: the interactor afterwards and the exception raised
set_input_mode(self, value) ==
    CASE value = "SELECT" -> Handled(SetSelect(self), None, "", <<>>)
      [] value = "PLACE" ->
            IF ~EndsWithPyp(self.FixtureFilePath)
            THEN Handled(self, None, "ValueError", <<>>)
            ELSE Handled(SetPlace(self), None, "", <<>>)
      [] OTHER -> Handled(SetMove(self), None, "", <<>>)

\* FixturePlacementInteractor.__init__ on the building element it is given
NewInteractor(fixture_file_path, snap_by_radio_group) ==
    [input_mode |-> "SELECT",
     visual_script_service |-> None,
     FixtureFilePath |-> fixture_file_path,
     SnapByRadioGroup |-> snap_by_radio_group,
     main_palette |-> "shown",
     selected_pythonpart |-> NoPythonPart,
     hidden |-> {},
     placement_point |-> Vec(0, 0, 0),
     placement_angle |-> 0,
     placement_matrix |-> IdentityMatrix,
     trace_pnt |-> Vec(0, 0, 0),
     coord_input |-> ElementInput,
     terminated |-> FALSE]

\* variant: ESC in PLACE mode leaves the mode whatever the service answers
CancelInput_Always(self, vs_on_cancel_result) ==
    Handled(SetSelect(self), FALSE, "", <<>>)

\* on_cancel_function in PLACE or MOVE mode: the event is passed to the
\* VS-PythonPart, if one is loaded, and the input continues when it answers
\* false
CancelInput(self, vs_on_cancel_result) ==
    IF self.visual_script_service # None /\ ~vs_on_cancel_result
    THEN Handled(self, FALSE, "", <<>>)
    ELSE Handled(SetSelect(self), FALSE, "", <<>>)

\* on_cancel_function in SELECT mode: the PythonPart is terminated
Terminate(self) ==
    Handled([self EXCEPT !.main_palette = "closed", !.terminated = TRUE], TRUE, "", <<>>)

\* FixturePlacementInteractor.on_cancel_function; vs_on_cancel_result is the
\* answer of the visual script service, when it is asked
on_cancel_function(self, vs_on_cancel_result) ==
    IF self.input_mode \in {"PLACE", "MOVE"}
    THEN CancelInput(self, vs_on_cancel_result)
    ELSE Terminate(self)

\* variant: the page change enters PLACE mode from any mode
set_active_palette_page_index_AnyMode(self, active_page_index) ==
    IF /\ active_page_index = 0
       /\ EndsWithPyp(self.FixtureFilePath)
    THEN set_input_mode(self, "PLACE")
    ELSE Handled(self, None, "", <<>>)

\* FixturePlacementInteractor.set_active_palette_page_index
set_active_palette_page_index(self, active_page_index) ==
    IF /\ active_page_index = 0
       /\ EndsWithPyp(self.FixtureFilePath)
       /\ self.input_mode = "SELECT"
    THEN set_input_mode(self, "PLACE")
    ELSE Handled(self, None, "", <<>>)

\* the parameters of the main palette and their values
ParameterValues(name) ==
    IF name = "FixtureFilePath" THEN FixtureFilePaths ELSE SnapByRadioGroups

ParameterNames == {"FixtureFilePath", "SnapByRadioGroup"}

\* FixturePlacementInteractor.modify_element_property: in PLACE mode the
\* modification goes to the visual script service, otherwise the main palette
\* service writes the value into the building element
modify_element_property(self, name, value) ==
    IF self.input_mode = "PLACE" /\ self.visual_script_service # None
    THEN Handled(self, None, "", <<>>)
    ELSE Handled([self EXCEPT ![name] = value], None, "", <<>>)

\* FixturePlacementInteractor.on_cancel_by_menu_function
on_cancel_by_menu_function(self) ==
    Handled([self EXCEPT !.main_palette = "closed", !.terminated = TRUE], None, "", <<>>)

\* FixturePlacementInteractor.pick_up_pythonpart: the selected PythonPart is
\* kept with its placement matrix reset, and the original hidden
pick_up_pythonpart(self, found) ==
    [self EXCEPT !.selected_pythonpart = found,
                 !.trace_pnt = PlacedAt(found),
                 !.hidden = @ \cup {found}]

\* a PythonPartTransaction executed with the placement matrix
Transaction(elements, matrix) == [elements |-> elements, matrix |-> matrix]

\* FixturePlacementInteractor.create_elements: the transactions it executes
create_elements(self) ==
    IF self.input_mode = "PLACE" /\ self.visual_script_service # None
    THEN <<Transaction("create_pythonpart", self.placement_matrix)>>
    ELSE IF self.input_mode = "MOVE"
         THEN <<Transaction(self.selected_pythonpart, self.placement_matrix)>>
         ELSE <<>>

\* variant: a click in MOVE mode moves the PythonPart and stays in MOVE mode
PlaceOrMove_Stay(self) ==
    Handled(self, TRUE, "", create_elements(self))

\* process_mouse_msg, a click in PLACE or MOVE mode
PlaceOrMove(self) ==
    Handled(IF self.input_mode = "MOVE" THEN SetSelect(self) ELSE self,
            TRUE, "", create_elements(self))

\* variant: the click that picks a PythonPart up goes on to place it
AfterPreview_FallThrough(self, is_mouse_move, found) ==
    IF is_mouse_move
    THEN Handled(self, TRUE, "", <<>>)
    ELSE IF self.input_mode = "SELECT" /\ found # NoElement
         THEN PlaceOrMove(SetMove(pick_up_pythonpart(self, found)))
         ELSE IF self.input_mode \in {"PLACE", "MOVE"}
              THEN PlaceOrMove(self)
              ELSE Handled(self, TRUE, "", <<>>)

\* process_mouse_msg, the part after draw_preview; `found` is the PythonPart
\* SelectElement found in SELECT mode, NoElement for none
AfterPreview(self, is_mouse_move, found) ==
    IF is_mouse_move
    THEN Handled(self, TRUE, "", <<>>)
    ELSE IF self.input_mode = "SELECT" /\ found # NoElement
         THEN Handled(SetMove(pick_up_pythonpart(self, found)), TRUE, "", <<>>)
         ELSE IF self.input_mode \in {"PLACE", "MOVE"}
              THEN PlaceOrMove(self)
              ELSE Handled(self, TRUE, "", <<>>)

\* the placement point and the placement matrix of a snap are kept
Placed(self, placement_point, placement_matrix) ==
    [self EXCEPT !.placement_point = placement_point,
                 !.placement_matrix = placement_matrix]

\* on_preview_draw: the placement follows the dialog line
on_preview_draw(self, placement_point, placement_angle, placement_matrix) ==
    Handled([self EXCEPT !.placement_point = placement_point,
                         !.placement_angle = placement_angle,
                         !.placement_matrix = placement_matrix],
            None, "", <<>>)

\* the point inputs of the interactor: a point of the top face of the cube
\* and a point further from the cube than the snap tolerance
InputPoints ==
    {Vec(DefaultTolerance, DefaultTolerance, 2 * DefaultTolerance),
     Vec(3 * DefaultTolerance + 1, 3 * DefaultTolerance + 1, 3 * DefaultTolerance + 1)}

\* the geometry elements under the cursor of the interactor
InputElements == {"CubeElement", "ComplexElement"}

\* the face the ray of the interactor hits: the side X+ of the cube
HitFace == CHOOSE i \in 0..(Len(CubeFaces) - 1) : CubeFaces[i + 1].nv = Vec(1, 0, 0)

\* the answers of SelectPolyhedronFace to the interactor: no face, or the
\* face in its vertex
InputHits(element) ==
    {NoHit,
     FaceHit(FaceOf(GetModelGeometry(element), HitFace).nv,
             FaceOf(GetModelGeometry(element), HitFace).vertex)}

\* snap_by_point(input_pnt, rotation, ...) is called with the tolerance 20.0
DefaultSnapTolerance == DefaultTolerance * Den

\* the snap call the interactor makes for the point: by ray or by point,
\* as the SnapByRadioGroup parameter says
SnapCall(self, input_pnt, view_pnt, selected, hit) ==
    IF self.SnapByRadioGroup = "SnapByRay"
    THEN [op |-> "snap_by_ray", input_pnt |-> input_pnt, rotation |-> self.placement_angle,
          selected |-> selected, hit |-> hit]
    ELSE [op |-> "snap_by_point", input_pnt |-> input_pnt, rotation |-> self.placement_angle,
          view_pnt |-> view_pnt, selected |-> selected, tolerance |-> DefaultSnapTolerance]

\* what the snap call does to the session
Snap(session, c, anti) ==
    IF c.op = "snap_by_ray"
    THEN snap_by_ray(session, c.input_pnt, c.rotation, c.selected, c.hit, anti)
    ELSE snap_by_point(session, c.input_pnt, c.rotation, c.view_pnt, c.selected,
                       c.tolerance, anti)

\* the host's answers to the element search of a snap call
SnapAnswers(self, view_pnt) ==
    IF self.SnapByRadioGroup = "SnapByRay"
    THEN {[selected |-> e, hit |-> h] :
             e \in {"CubeElement"}, h \in InputHits("CubeElement")}
         \cup {[selected |-> NoElement, hit |-> NoHit]}
    ELSE {[selected |-> e, hit |-> NoHit] :
             e \in IF view_pnt = DefaultViewPoint THEN {NoElement}
                   ELSE InputElements \cup {NoElement}}

----------------------------------------------------------------------------
\* the interactor is there and the framework has not terminated it
Running == interactor # NoInteractor /\ ~interactor.terminated

\* a handler that leaves the session alone runs to its end
Handle(the_call, handled) ==
    /\ call' = the_call
    /\ interactor' = handled.self
    /\ ret' = [value |-> handled.value, raised |-> handled.raised,
               transactions |-> handled.transactions]
    /\ prev' = Fields
    /\ UNCHANGED <<polyhedron, ref_element, normal_vec, host_half_turn, last_hit_normal>>

\* a handler that snaps runs to its end: c is its snap call and outcome what
\* the snap call left
HandleSnap(the_call, c, outcome, handled) ==
    /\ call' = the_call
    /\ interactor' = handled.self
    /\ ret' = [value |-> handled.value, raised |-> handled.raised,
               transactions |-> handled.transactions]
    /\ prev' = Fields
    /\ polyhedron' = outcome.polyhedron
    /\ ref_element' = outcome.ref_element
    /\ normal_vec' = outcome.normal_vec
    /\ last_hit_normal' = IF SuccessfulHit(c, Fields) THEN HitNormal(c, Fields)
                          ELSE last_hit_normal
    /\ UNCHANGED host_half_turn

\* on_cancel_function asks the visual script service
AsksService(self) ==
    self.input_mode \in {"PLACE", "MOVE"} /\ self.visual_script_service # None

InitInteractor ==
    /\ FreshSession
    /\ \E fixture_file_path \in FixtureFilePaths, snap_by_radio_group \in SnapByRadioGroups :
        interactor = NewInteractor(fixture_file_path, snap_by_radio_group)
    /\ call = [op |-> "__init__"]
    /\ ret = [raised |-> "none"]

OnCancelFunction ==
    /\ Running
    /\ \E vs_on_cancel_result \in (IF AsksService(interactor) THEN BOOLEAN ELSE {FALSE}) :
        Handle([op |-> "on_cancel_function", input_mode |-> interactor.input_mode,
                asked |-> AsksService(interactor),
                vs_on_cancel_result |-> vs_on_cancel_result],
               on_cancel_function(interactor, vs_on_cancel_result))

OnCancelByMenuFunction ==
    /\ Running
    /\ Handle([op |-> "on_cancel_by_menu_function", input_mode |-> interactor.input_mode],
              on_cancel_by_menu_function(interactor))

SetActivePalettePageIndex ==
    /\ Running
    /\ \E active_page_index \in 0..1 :
        Handle([op |-> "set_active_palette_page_index",
                input_mode |-> interactor.input_mode,
                active_page_index |-> active_page_index],
               set_active_palette_page_index(interactor, active_page_index))

ModifyElementProperty ==
    /\ Running
    /\ \E name \in ParameterNames :
        \E value \in ParameterValues(name) :
            Handle([op |-> "modify_element_property", input_mode |-> interactor.input_mode,
                    name |-> name, value |-> value],
                   modify_element_property(interactor, name, value))

\* process_mouse_msg in SELECT mode: an element search, no snap
SelectMouseMsg ==
    /\ Running
    /\ interactor.input_mode = "SELECT"
    /\ \E is_mouse_move \in BOOLEAN, found \in PythonParts \cup {NoElement} :
        Handle([op |-> "process_mouse_msg", input_mode |-> interactor.input_mode,
                is_mouse_move |-> is_mouse_move, found |-> found],
               AfterPreview(interactor, is_mouse_move, found))

\* the view points of the mouse that make a difference to the snap: the ray
\* is sent through the view point of the input point, not through the mouse's
MousePoints(self) ==
    IF self.SnapByRadioGroup = "SnapByRay" THEN {DefaultViewPoint} ELSE ViewPoints

\* process_mouse_msg in PLACE and MOVE mode: a point input and a snap
PointMouseMsg ==
    /\ Running
    /\ interactor.input_mode # "SELECT"
    /\ \E input_pnt \in InputPoints, view_pnt \in MousePoints(interactor) :
        \E answer \in SnapAnswers(interactor, view_pnt) :
            \E c \in {SnapCall(interactor, input_pnt, view_pnt, answer.selected, answer.hit)} :
                \E outcome \in {Snap(Fields, c, host_half_turn)} :
                    \E is_mouse_move \in BOOLEAN :
                        HandleSnap([op |-> "process_mouse_msg",
                                    input_mode |-> interactor.input_mode,
                                    is_mouse_move |-> is_mouse_move, found |-> NoElement],
                                   c, outcome,
                                   AfterPreview(Placed(interactor, input_pnt,
                                                       outcome.ret.matrix),
                                                is_mouse_move, NoElement))

OnPreviewDraw ==
    /\ Running
    /\ \E input_pnt \in InputPoints, placement_angle \in Twists :
        \E answer \in SnapAnswers(interactor, DefaultViewPoint) :
            \E c \in {SnapCall([interactor EXCEPT !.placement_angle = placement_angle],
                               input_pnt, DefaultViewPoint, answer.selected, answer.hit)} :
                \E outcome \in {Snap(Fields, c, host_half_turn)} :
                    HandleSnap([op |-> "on_preview_draw",
                                input_mode |-> interactor.input_mode],
                               c, outcome,
                               on_preview_draw(interactor, input_pnt, placement_angle,
                                               outcome.ret.matrix))

NextInteractor ==
    \/ OnCancelFunction
    \/ OnCancelByMenuFunction
    \/ SetActivePalettePageIndex
    \/ ModifyElementProperty
    \/ SelectMouseMsg
    \/ PointMouseMsg
    \/ OnPreviewDraw

SpecInteractor == InitInteractor /\ [][NextInteractor]_vars

----------------------------------------------------------------------------
(* The input_mode setter and set_active_palette_page_index on their own:    *)
(* the interactor and the argument are drawn when the call is made.         *)

\* the interactor as its handlers leave it: after __init__, after PLACE was
\* entered, and after a PythonPart was picked up
InteractorStates ==
    {NewInteractor(path, group) : path \in FixtureFilePaths, group \in SnapByRadioGroups}
    \cup {SetPlace(NewInteractor(path, group)) :
             path \in {p \in FixtureFilePaths : EndsWithPyp(p)}, group \in SnapByRadioGroups}
    \cup {[SetMove(pick_up_pythonpart(NewInteractor(path, group), found))
              EXCEPT !.FixtureFilePath = later] :
             path \in FixtureFilePaths, later \in FixtureFilePaths,
             group \in SnapByRadioGroups, found \in PythonParts}

InitInputMode ==
    /\ FreshSession
    /\ interactor \in InteractorStates
    /\ \/ call \in [op : {"input_mode.setter"}, self : {interactor}, value : InputModes]
       \/ call \in [op : {"set_active_palette_page_index"}, self : {interactor},
                    active_page_index : 0..1]
    /\ ret = Pending

\* the call is made and runs to its end
Assign(handled) ==
    /\ interactor' = handled.self
    /\ ret' = [value |-> handled.value, raised |-> handled.raised,
               transactions |-> handled.transactions]
    /\ UNCHANGED <<polyhedron, ref_element, normal_vec, host_half_turn, prev, call,
                   last_hit_normal>>

InputModeSetterCall ==
    /\ call.op = "input_mode.setter"
    /\ ret = Pending
    /\ Assign(set_input_mode(interactor, call.value))

PalettePageCall ==
    /\ call.op = "set_active_palette_page_index"
    /\ ret = Pending
    /\ Assign(set_active_palette_page_index(interactor, call.active_page_index))

NextInputMode == InputModeSetterCall \/ PalettePageCall

SpecInputMode == InitInputMode /\ [][NextInputMode]_vars

----------------------------------------------------------------------------
(* The two variants of snap_by_point: with the mouse message, the view      *)
(* point and the message info of a mouse move, and without them.            *)

\* the overloads of snap_by_point
Variants == {"mouse_move", "no_view_point"}

\* the view points a variant is called with: any point of the viewport in a
\* mouse move, the default Point2D() of the parameter without one
ViewPointsOf(variant) ==
    IF variant = "mouse_move" THEN ViewPoints ELSE {DefaultViewPoint}

\* sessions as snap_by_point calls leave them: fresh, with the cube under the
\* cursor, and with the cursor moved off the cube
SearchSessions ==
    {[polyhedron |-> "Empty", ref_element |-> NoElement, normal_vec |-> Vec(0, 0, 1)],
     [polyhedron |-> "Cube", ref_element |-> "CubeElement", normal_vec |-> Vec(0, 0, 1)],
     [polyhedron |-> "Cube", ref_element |-> NoElement, normal_vec |-> Vec(0, 0, 1)]}

\* the session, the variant, its arguments and the element under the cursor
\* (`selected`, what SelectGeometryElement finds there when it is asked)
InitSearch ==
    /\ prev \in SearchSessions
    /\ polyhedron = prev.polyhedron
    /\ ref_element = prev.ref_element
    /\ normal_vec = prev.normal_vec
    /\ last_hit_normal = prev.normal_vec
    /\ host_half_turn \in 1..2
    /\ interactor = NoInteractor
    /\ \E variant \in Variants :
        call \in [op : {"snap_by_point"}, variant : {variant}, input_pnt : Points,
                  rotation : Twists, view_pnt : ViewPointsOf(variant),
                  selected : Elements \cup {NoElement}, tolerance : {DefaultSnapTolerance}]
    /\ ret = Pending

\* the call is made and runs to its end on the session
SnapByPointVariantCall ==
    /\ call.op = "snap_by_point"
    /\ ret = Pending
    /\ \E outcome \in {Snap(Fields, call, host_half_turn)} :
        /\ polyhedron' = outcome.polyhedron
        /\ ref_element' = outcome.ref_element
        /\ normal_vec' = outcome.normal_vec
        /\ ret' = outcome.ret
    /\ last_hit_normal' = IF SuccessfulHit(call, Fields) THEN HitNormal(call, Fields)
                          ELSE last_hit_normal
    /\ UNCHANGED <<host_half_turn, prev, call, interactor>>

NextSearch == SnapByPointVariantCall

SpecSearch == InitSearch /\ [][NextSearch]_vars

----------------------------------------------------------------------------
(* Properties *)

PointCall == call.op = "snap_by_point"
RayCall == call.op = "snap_by_ray"

\* the frame the caller expects for a normal and a placement point
Frame(normal, point) ==
    calc_placement_matrix(normal, point, call.rotation, host_half_turn)

\* C1: in snap_by_point, when the nearest-face search succeeds with distance
\* d, the last normal becomes the nearest face's normal if d <= tolerance
\* (d = tolerance included) and is left exactly as it was if d > tolerance.
C1_ToleranceInclusive ==
    (PointCall /\ ret.search.raised = "") =>
        normal_vec = IF ret.search.distance <= call.tolerance
                     THEN MeshOf(polyhedron).faces[ret.search.index + 1].nv
                     ELSE prev.normal_vec

\* the search found a face exactly `tolerance` away and the normal changed
C1_Witness ==
    /\ PointCall
    /\ ret.search.raised = ""
    /\ call.tolerance > 0
    /\ ret.search.distance = call.tolerance
    /\ normal_vec # prev.normal_vec

\* C2: every snap_by_point call returns build_frame(last_normal, input_point,
\* twist) with the last normal as it stands at the end of the call; the
\* translation of the returned matrix is the raw input point.
C2_PointFrame ==
    PointCall =>
        /\ ret.raised = ""
        /\ ret.matrix = Frame(normal_vec, call.input_pnt)
        /\ GetTranslationVector(ret.matrix) = call.input_pnt

\* an in-tolerance hit off the face that changed the normal
C2_Witness ==
    /\ PointCall
    /\ ret.search.raised = ""
    /\ ret.search.distance > 0
    /\ ret.search.distance <= call.tolerance
    /\ normal_vec # prev.normal_vec
    /\ call.rotation > 0

\* C3: in snap_by_ray with an element detected and a face hit, the last
\* normal is the hit face's normal and the returned matrix is
\* build_frame(hit normal, hit point, twist): translated to the hit point.
C3_RayHit ==
    (RayCall /\ call.selected # NoElement /\ call.hit.face_detected) =>
        /\ normal_vec = call.hit.FaceNv
        /\ ret.matrix = Frame(call.hit.FaceNv, call.hit.IntersectionPoint)
        /\ GetTranslationVector(ret.matrix) = call.hit.IntersectionPoint

\* a face hit away from the input point whose normal is a new one
C3_Witness ==
    /\ RayCall
    /\ call.selected # NoElement
    /\ call.hit.face_detected
    /\ call.hit.IntersectionPoint # call.input_pnt
    /\ call.hit.FaceNv # prev.normal_vec
    /\ normal_vec = call.hit.FaceNv

\* C4: in snap_by_ray on a miss (no element detected, or an element without
\* a face hit) the last normal is unchanged and the returned matrix is
\* build_frame(previous last normal, input_point, twist).
C4_RayMiss ==
    (RayCall /\ (call.selected = NoElement \/ ~call.hit.face_detected)) =>
        /\ normal_vec = prev.normal_vec
        /\ ret.matrix = Frame(prev.normal_vec, call.input_pnt)
        /\ GetTranslationVector(ret.matrix) = call.input_pnt

\* an element without a face hit, on a session that had snapped before
C4_Witness ==
    /\ RayCall
    /\ call.selected # NoElement
    /\ ~call.hit.face_detected
    /\ prev.normal_vec # Vec(0, 0, 1)
    /\ normal_vec = prev.normal_vec

\* C5: over any sequence of snap_by_point and snap_by_ray calls the last
\* normal is (0,0,1) until the first successful hit and afterwards the
\* normal of the most recent successful hit: last_hit_normal records exactly
\* that, from the arguments and the host's answers.
C5_LastKnownNormal == normal_vec = last_hit_normal

\* a call that was no hit, on a session whose element changed, keeps a
\* normal an earlier hit left
C5_Witness ==
    /\ call.op \in {"snap_by_point", "snap_by_ray"}
    /\ ~SuccessfulHit(call, prev)
    /\ ref_element # prev.ref_element
    /\ last_hit_normal # Vec(0, 0, 1)
    /\ normal_vec = last_hit_normal

\* C6: _find_nearest_face raises the too-complex error for more than 2^14
\* faces, without scanning a face; 2^14 faces are accepted, 2^14 + 1 not.
C6_FaceLimit ==
    (call.op = "find_nearest_face" /\ ret.raised # "pending") =>
        /\ MeshOf(call.polyhedron).count > 2 ^ 14 =>
              /\ ret.raised = "ValueError"
              /\ ret.message = "The polyhedron is too complex"
              /\ ret.scanned = 0
        /\ MeshOf(call.polyhedron).count = 2 ^ 14 => ret.raised = ""
        /\ MeshOf(call.polyhedron).count = 2 ^ 14 + 1 => ret.raised = "ValueError"

\* the search of a polyhedron of exactly 2^14 faces returned
C6_Witness ==
    /\ call.op = "find_nearest_face"
    /\ MeshOf(call.polyhedron).count = 2 ^ 14
    /\ ret.raised = ""
    /\ ret.scanned = 2 ^ 14

\* C7: a too complex polyhedron in snap_by_point never raises to the caller:
\* the cached polyhedron becomes the empty one, the last normal is unchanged
\* and build_frame(last_normal, input_point, twist) is returned; so do the
\* later snap_by_point calls that bring no new valid reference.
C7_TooComplexRecovered ==
    (PointCall /\ (MeshOf(SnapTarget(call, prev)).count > 2 ^ 14
                   \/ SnapTarget(call, prev) = "Empty")) =>
        /\ ret.raised = ""
        /\ polyhedron = "Empty"
        /\ normal_vec = prev.normal_vec
        /\ ret.matrix = Frame(prev.normal_vec, call.input_pnt)

\* a too complex element was hovered on a session that had snapped before
C7_Witness ==
    /\ PointCall
    /\ NewReference(call)
    /\ MeshOf(SnapTarget(call, prev)).count > 2 ^ 14
    /\ prev.polyhedron # "Empty"
    /\ prev.normal_vec # Vec(0, 0, 1)
    /\ polyhedron = "Empty"
    /\ normal_vec = prev.normal_vec

\* C8: for a polyhedron of 1 to 2^14 faces _find_nearest_face returns (i, d),
\* d the least plane distance |n_j . (point - v_j)| over the faces and i the
\* first face at that distance.
C8_NearestFace ==
    (call.op = "find_nearest_face" /\ ret.raised # "pending"
        /\ Searchable(call.polyhedron)) =>
        /\ ret.raised = ""
        /\ IsNearestFace(call.polyhedron, ret.index, call.point)
        /\ ret.distance = PlaneDistance(call.polyhedron, ret.index, call.point)

\* a point with a later face of the cube as near as the returned one
C8_Witness ==
    /\ call.op = "find_nearest_face"
    /\ call.polyhedron = "Cube"
    /\ ret.raised = ""
    /\ \E j \in (ret.index + 1)..(MeshOf(call.polyhedron).count - 1) :
          PlaneDistance(call.polyhedron, j, call.point) = ret.distance

\* the cached polyhedron after a call that snapped to `mesh`: that mesh, or
\* the empty one when the search refused it
CachedAfterSnapTo(mesh) ==
    polyhedron = IF Searchable(mesh) THEN mesh ELSE "Empty"

C10_ZAxisIsNormal ==
    (call.op = "calc_placement_matrix" /\ ret.raised = "" /\ ~IsZero(call.normal_vec)) =>
        VecMul(Vec(0, 0, 1), ret.matrix) = Normalize(call.normal_vec)

\* the matrix a placement call would return for the call's normal and point
\* with the twist q
FrameWithTwist(q) ==
    calc_placement_matrix(call.normal_vec, call.placement_pnt, q, host_half_turn)

FrameCall == call.op = "calc_placement_matrix" /\ ret.raised = ""

\* C11: for a fixed normal and placement point any two twists give matrices
\* with the same image of the local +Z axis and the same translation; twists
\* that differ by less than a full turn give different images of the local X
\* and Y axes.
C11_TwistKeepsZ ==
    FrameCall =>
        \A q \in QuarterTurns :
            /\ VecMul(Vec(0, 0, 1), FrameWithTwist(q)) = VecMul(Vec(0, 0, 1), ret.matrix)
            /\ GetTranslationVector(FrameWithTwist(q)) = GetTranslationVector(ret.matrix)
            /\ q # call.z_rotation =>
                  /\ VecMul(Vec(1, 0, 0), FrameWithTwist(q)) # VecMul(Vec(1, 0, 0), ret.matrix)
                  /\ VecMul(Vec(0, 1, 0), FrameWithTwist(q)) # VecMul(Vec(0, 1, 0), ret.matrix)

\* a twisted frame for a sloping normal away from the origin
C11_Witness ==
    /\ FrameCall
    /\ call.z_rotation > 0
    /\ call.normal_vec = <<0, 3, 4>>
    /\ GetTranslationVector(ret.matrix) # <<0, 0, 0>>
    /\ VecMul(Vec(1, 0, 0), ret.matrix) # VecMul(Vec(1, 0, 0), FrameWithTwist(0))

\* column j of the rotation block of a matrix
Column(M, j) == <<M[1][j], M[2][j], M[3][j]>>

\* the scalar product of two fixed-point vectors, unscaled
RawDot(a, b) == a[1] * b[1] + a[2] * b[2] + a[3] * b[3]

\* the columns of the rotation block have unit length and are perpendicular
IsOrthonormal(M) ==
    \A i, j \in 1..3 :
        RawDot(Column(M, i), Column(M, j)) = IF i = j THEN Den * Den ELSE 0

\* the determinant of the rotation block, unscaled
Determinant(M) == RawDot(Column(M, 1), VecScale(CrossProduct(Column(M, 2), Column(M, 3)), Den))

\* the translation column of an affine matrix: (0, 0, 0, 1)
IsAffine(M) == \A i \in 1..3 : M[i][4] = 0 /\ M[4][4] = Den

\* C12: for every non-zero normal, placement point and twist the rotation
\* block of the matrix _calc_placement_matrix returns is orthonormal with
\* determinant +1: the transform is rigid.
C12_Rigid ==
    FrameCall =>
        /\ IsOrthonormal(ret.matrix)
        /\ Determinant(ret.matrix) = Den * Den * Den
        /\ IsAffine(ret.matrix)

\* a twisted frame for a sloping normal that is not of unit length
C12_Witness ==
    /\ FrameCall
    /\ call.normal_vec = Vec(0, 3, 4)
    /\ call.z_rotation > 0
    /\ IsOrthonormal(ret.matrix)
    /\ VecMul(Vec(0, 0, 1), ret.matrix) \notin {Vec(0, 0, 1), Vec(0, 0, -1)}

\* C13 as stated: _calc_placement_matrix with the zero vector as normal does
\* not fail and returns the transform it returns for the normal (0,0,1), the
\* same placement point and the same twist.
C13_ZeroNormalFallback ==
    (call.op = "calc_placement_matrix" /\ ret # Pending /\ IsZero(call.normal_vec)) =>
        /\ ret.raised = ""
        /\ ret.matrix = calc_placement_matrix(Vec(0, 0, 1), call.placement_pnt,
                                              call.z_rotation, host_half_turn)

\* the normal has a direction and no projection onto the XY plane
IsVertical(normal) == ~IsZero(normal) /\ normal[1] = 0 /\ normal[2] = 0

\* the rotation about Z by q quarter turns and nothing else
TwistOnly(q) ==
    << <<Cos(q), Sin(q), 0, 0>>,
       <<-Sin(q), Cos(q), 0, 0>>,
       <<0, 0, Den, 0>>,
       <<0, 0, 0, Den>> >>

\* C14: for a vertical normal step 1 is skipped: the pre-rotation is the
\* twist about Z alone, the identity for no twist, so that the matrix is that
\* twist, then the alignment, then the translation; the call succeeds and the
\* rotation block is orthonormal.
C14_VerticalNormal ==
    (call.op = "calc_placement_matrix" /\ ret # Pending /\ IsVertical(call.normal_vec)) =>
        /\ ret.raised = ""
        /\ TwistOnly(0) = IdentityMatrix
        /\ ret.matrix =
              MatMul(MatMul(TwistOnly(call.z_rotation),
                            SetRotation(Vec(0, 0, 1), VecScale(call.normal_vec, -1),
                                        host_half_turn)),
                     SetTranslation(call.placement_pnt))
        /\ IsOrthonormal(ret.matrix)

\* a twisted frame for the normal (0,0,1), which the alignment turns over
C14_Witness ==
    /\ FrameCall
    /\ call.normal_vec = Vec(0, 0, 1)
    /\ call.z_rotation > 0
    /\ VecMul(Vec(1, 0, 0), ret.matrix) # VecMul(Vec(1, 0, 0), FrameWithTwist(0))
    /\ IsOrthonormal(ret.matrix)

\* the normal has a projection onto the XY plane
HasHorizontalPart(normal) == normal[1] # 0 \/ normal[2] # 0

\* C15 as stated: with zero twist and a normal whose XY projection is not
\* zero, the image of the local X axis under the rotation of
\* _calc_placement_matrix lies in the global XY plane.
C15_XAxisHorizontal ==
    (FrameCall /\ call.z_rotation = 0 /\ HasHorizontalPart(call.normal_vec)) =>
        VecMul(Vec(1, 0, 0), ret.matrix)[3] = 0

OpeningCall == call.op = "create_opening_in_wall" /\ ret # Pending

\* the element the opening is asked for is a wall
OnWall == call.wall_element = "WallTier_TypeUUID"

\* how far the Z component of the image of local Z is from 0
TiltOf(M) == Abs(VecMul(Vec(0, 0, 1), M)[3])

NotVerticalError ==
    ret.raised = "ValueError" /\ ret.message = "Can only create a vertical openint"

UprightOpening ==
    /\ OpeningCall
    /\ ret.raised = ""
    /\ IsOrthonormal(call.placement_matrix)
    /\ TiltOf(call.placement_matrix) = 0

\* the image of local Z in the plan, the wall normal
WallNormal2D == To2D(VecMul(Vec(0, 0, 1), call.placement_matrix))

\* the translation of the matrix in the plan
Translation2D == To2D(GetTranslationVector(call.placement_matrix))

\* the two vectors a vector becomes when turned by 90 degrees
QuarterTurned(v) == {<<-v[2], v[1]>>, <<v[2], -v[1]>>}

Sub2D(a, b) == <<a[1] - b[1], a[2] - b[2]>>

Scale2D(v, k) == <<v[1] * k, v[2] * k>>

RawDot2D(a, b) == a[1] * b[1] + a[2] * b[2]

\* C17: for a vertical rigid placement matrix and any width the footprint is
\* start = t2 - o * width / 2 and end = t2 + o * width / 2, t2 the
\* translation in the plan and o the wall normal turned by 90 degrees: its
\* midpoint is t2, it is perpendicular to the wall normal and as long as the
\* width.
C17_Footprint ==
    UprightOpening =>
        /\ \E o \in QuarterTurned(WallNormal2D) :
              /\ Scale2D(Sub2D(Translation2D, ret.model_ele_list[1].start_point), 2 * Den)
                    = Scale2D(o, call.width)
              /\ Scale2D(Sub2D(ret.model_ele_list[1].end_point, Translation2D), 2 * Den)
                    = Scale2D(o, call.width)
        /\ Sub2D(ret.model_ele_list[1].end_point, Translation2D)
              = Sub2D(Translation2D, ret.model_ele_list[1].start_point)
        /\ RawDot2D(Sub2D(ret.model_ele_list[1].end_point,
                          ret.model_ele_list[1].start_point), WallNormal2D) = 0
        /\ RawDot2D(Sub2D(ret.model_ele_list[1].end_point,
                          ret.model_ele_list[1].start_point),
                    Sub2D(ret.model_ele_list[1].end_point,
                          ret.model_ele_list[1].start_point)) = call.width * call.width

\* an opening of a width in a wall that runs obliquely to the axes
C17_Witness ==
    /\ UprightOpening
    /\ call.width > 0
    /\ WallNormal2D = <<3, 4>>
    /\ ret.model_ele_list[1].start_point # ret.model_ele_list[1].end_point
    /\ ret.model_ele_list[1].start_point[1] # ret.model_ele_list[1].end_point[1]

\* C18: a successful call returns exactly one opening element whose bottom
\* offset is translation.Z - height / 2 and whose top offset is
\* translation.Z + height / 2, so that they are `height` apart about
\* translation.Z, and whose depth is the given depth; a width or height of
\* zero gives a footprint without length or an extent without height and
\* does not make the call fail.
C18_Extent ==
    /\ (OpeningCall /\ OnWall
          /\ TiltOf(call.placement_matrix) < VerticalTolerance) => ret.raised = ""
    /\ (OpeningCall /\ ret.raised = "") =>
        /\ Len(ret.model_ele_list) = 1
        /\ 2 * (GetTranslationVector(call.placement_matrix)[3]
                 - ret.model_ele_list[1].BottomOffset) = call.height
        /\ 2 * (ret.model_ele_list[1].TopOffset
                 - GetTranslationVector(call.placement_matrix)[3]) = call.height
        /\ ret.model_ele_list[1].TopOffset - ret.model_ele_list[1].BottomOffset = call.height
        /\ ret.model_ele_list[1].Depth = call.depth
        /\ call.width = 0 =>
              ret.model_ele_list[1].start_point = ret.model_ele_list[1].end_point
        /\ call.height = 0 =>
              ret.model_ele_list[1].TopOffset = ret.model_ele_list[1].BottomOffset

\* an opening without height, of a width and a depth, was returned
C18_Witness ==
    /\ OpeningCall
    /\ ret.raised = ""
    /\ call.height = 0
    /\ call.width > 0
    /\ call.depth > 0
    /\ Len(ret.model_ele_list) = 1
    /\ ret.model_ele_list[1].TopOffset = GetTranslationVector(call.placement_matrix)[3]

\* C19: an element that is not a wall is rejected with the error about the
\* wall, whatever the matrix: also when the matrix does not place upright;
\* no opening element is produced.
C19_NotAWall ==
    (OpeningCall /\ ~OnWall) =>
        /\ ret.raised = "ValueError"
        /\ ret.message = "Can only create opening in a wall"
        /\ ret.model_ele_list = <<>>

\* an element that is no wall was rejected with a matrix that does not place
\* upright
C19_Witness ==
    /\ OpeningCall
    /\ call.wall_element = "Slab_TypeUUID"
    /\ TiltOf(call.placement_matrix) > VerticalTolerance
    /\ ret.raised = "ValueError"
    /\ ret.message = "Can only create opening in a wall"

----------------------------------------------------------------------------
(* The interactor's handlers *)

CancelCall == call.op = "on_cancel_function"

\* C20: on_cancel_function returns True exactly when the interactor was in
\* SELECT mode when it was called; called in MOVE mode it leaves the
\* interactor in SELECT mode and returns False; called in PLACE mode it asks
\* the visual script service and returns False, leaving the interactor in
\* SELECT mode when the service answered true and in PLACE mode when it
\* answered false.
C20_Cancel ==
    CancelCall =>
        /\ ret.raised = ""
        /\ (ret.value = TRUE) <=> (call.input_mode = "SELECT")
        /\ call.input_mode = "MOVE" =>
                interactor.input_mode = "SELECT" /\ ret.value = FALSE
        /\ call.input_mode = "PLACE" =>
                /\ call.asked
                /\ ret.value = FALSE
                /\ interactor.input_mode =
                       (IF call.vs_on_cancel_result THEN "SELECT" ELSE "PLACE")

\* ESC in PLACE mode, refused by the visual script service: the input goes on
C20_Witness ==
    /\ CancelCall
    /\ call.input_mode = "PLACE"
    /\ call.asked
    /\ ~call.vs_on_cancel_result
    /\ interactor.input_mode = "PLACE"
    /\ ret.value = FALSE

MouseCall == call.op = "process_mouse_msg"

Click == MouseCall /\ ~call.is_mouse_move

\* the transactions of the last handler that moved a picked-up PythonPart
MoveTransactions ==
    {i \in DOMAIN ret.transactions : ret.transactions[i].elements \in PythonParts}

\* the transactions of the last handler that created the VS-PythonPart
CreateTransactions ==
    {i \in DOMAIN ret.transactions : ret.transactions[i].elements = "create_pythonpart"}

\* C21: a click (a mouse message that is no mouse move) in SELECT mode on a
\* found PythonPart picks it up and leaves the interactor in MOVE mode, and
\* with nothing found leaves it in SELECT mode; in MOVE mode it executes the
\* move transaction and leaves the interactor in SELECT mode; in PLACE mode
\* it executes the create transaction and leaves the interactor in PLACE
\* mode.  A mouse move leaves the mode as it was.
C21_Click ==
    MouseCall =>
        /\ call.is_mouse_move => interactor.input_mode = call.input_mode
        /\ Click /\ call.input_mode = "SELECT" /\ call.found # NoElement =>
                /\ interactor.input_mode = "MOVE"
                /\ interactor.selected_pythonpart = call.found
                /\ call.found \in interactor.hidden
        /\ Click /\ call.input_mode = "SELECT" /\ call.found = NoElement =>
                interactor.input_mode = "SELECT"
        /\ Click /\ call.input_mode = "MOVE" =>
                /\ Cardinality(MoveTransactions) = Len(ret.transactions)
                /\ Len(ret.transactions) = 1
                /\ interactor.input_mode = "SELECT"
        /\ Click /\ call.input_mode = "PLACE" =>
                /\ Cardinality(CreateTransactions) = Len(ret.transactions)
                /\ Len(ret.transactions) = 1
                /\ interactor.input_mode = "PLACE"

\* a click in MOVE mode: the picked-up PythonPart is moved and the
\* interactor is back in SELECT mode
C21_Witness ==
    /\ Click
    /\ call.input_mode = "MOVE"
    /\ MoveTransactions # {}
    /\ interactor.input_mode = "SELECT"

----------------------------------------------------------------------------
(* Repeated calls *)

\* the last snap call made once more on the session as it left it, with the
\* same arguments and the same answers of the host
Repeated == Snap(Fields, call, host_half_turn)

\* the outcome of a call is what the session holds and has just returned
LeavesAsIs(outcome) ==
    /\ outcome.ret.raised = ""
    /\ outcome.ret.matrix = ret.matrix
    /\ outcome.polyhedron = polyhedron
    /\ outcome.ref_element = ref_element
    /\ outcome.normal_vec = normal_vec

\* C22: a snap_by_point or snap_by_ray call repeated with the same input
\* point, twist, tolerance and host answers returns the matrix the first call
\* returned and leaves the polyhedron, the reference element and the last
\* normal as the first call left them, also after the polyhedron was found
\* too complex.
C22_Idempotent ==
    (PointCall \/ RayCall) => LeavesAsIs(Repeated)

\* a call without a new reference that changed the normal and turned the
\* returned frame
C22_Witness ==
    /\ PointCall
    /\ ~NewReference(call)
    /\ normal_vec # prev.normal_vec
    /\ call.rotation > 0
    /\ LeavesAsIs(Repeated)
    /\ ret.matrix # Frame(prev.normal_vec, call.input_pnt)

\* C23: a snap_by_point call on a session whose polyhedron is the empty one,
\* and that brings no new valid reference, does not call _find_nearest_face,
\* does not cancel the highlighting and returns
\* build_frame(last_normal, input_point, twist).
C23_SearchOnlyWithMesh ==
    (PointCall /\ SnapTarget(call, prev) = "Empty") =>
        /\ ret.search = Skipped
        /\ ~ret.cancelled
        /\ ret.matrix = Frame(prev.normal_vec, call.input_pnt)

----------------------------------------------------------------------------
(* Entering PLACE mode *)

SetterCall == call.op = "input_mode.setter" /\ ret # Pending

PageCall == call.op = "set_active_palette_page_index" /\ ret # Pending

\* C24: PLACE mode is entered only with a FixtureFilePath that ends with
\* ".pyp".  set_active_palette_page_index changes the mode only from SELECT,
\* for the page index 0 and with such a path, and then to PLACE; assigning
\* PLACE to input_mode with such a path enters PLACE mode, and with any other
\* path raises ValueError and leaves the mode, the visual script service and
\* the main palette as they were.
C24_PlaceNeedsPyp ==
    /\ PageCall /\ interactor.input_mode # call.self.input_mode =>
            /\ call.self.input_mode = "SELECT"
            /\ call.active_page_index = 0
            /\ EndsWithPyp(call.self.FixtureFilePath)
            /\ interactor.input_mode = "PLACE"
    /\ PageCall /\ call.self.input_mode = "SELECT" /\ call.active_page_index = 0
           /\ EndsWithPyp(call.self.FixtureFilePath) =>
            interactor.input_mode = "PLACE" /\ ret.raised = ""
    /\ SetterCall /\ call.value = "PLACE" /\ EndsWithPyp(call.self.FixtureFilePath) =>
            /\ ret.raised = ""
            /\ interactor.input_mode = "PLACE"
            /\ interactor.visual_script_service # None
    /\ SetterCall /\ call.value = "PLACE" /\ ~EndsWithPyp(call.self.FixtureFilePath) =>
            /\ ret.raised = "ValueError"
            /\ interactor.input_mode = call.self.input_mode
            /\ interactor.visual_script_service = call.self.visual_script_service
            /\ interactor.main_palette = call.self.main_palette
            /\ interactor = call.self

\* PLACE assigned in MOVE mode with a path that is no .pyp file
C24_Witness ==
    /\ SetterCall
    /\ call.value = "PLACE"
    /\ call.self.input_mode = "MOVE"
    /\ call.self.FixtureFilePath = "Fixture.txt"
    /\ ret.raised = "ValueError"
    /\ interactor.input_mode = "MOVE"
    /\ interactor.main_palette = "shown"

----------------------------------------------------------------------------
(* The mode over the events *)

ModeChange == interactor'.input_mode # interactor.input_mode

\* C25: the interactor starts in SELECT mode, and over any sequence of events
\* every change of the mode leaves SELECT mode or enters it: the changes are
\* SELECT to PLACE, SELECT to MOVE, PLACE to SELECT and MOVE to SELECT, never
\* PLACE to MOVE or MOVE to PLACE.
C25_Transitions ==
    /\ interactor.input_mode = "SELECT"
    /\ [][ModeChange =>
              /\ interactor.input_mode \in InputModes
              /\ interactor'.input_mode \in InputModes
              /\ "SELECT" \in {interactor.input_mode, interactor'.input_mode}]_vars

\* the mode has changed from MOVE to SELECT by ESC, after it had changed from
\* SELECT to MOVE
C25_Witness ==
    /\ CancelCall
    /\ call.input_mode = "MOVE"
    /\ interactor.input_mode = "SELECT"

\* a handler of the interactor has run to its end
HandlerDone == call.op # "__init__" /\ ret.raised = ""

\* C26: after every handler that ran to its end the visual script service is
\* set exactly when the mode is PLACE; so it is None in MOVE mode, and a
\* change from MOVE to SELECT mode shows the hidden elements again.
C26_ServiceInPlace ==
    /\ interactor.input_mode \in InputModes
    /\ (interactor.visual_script_service # None) <=> (interactor.input_mode = "PLACE")
    /\ HandlerDone /\ call.input_mode = "MOVE" /\ interactor.input_mode = "SELECT" =>
            interactor.hidden = {}

\* ESC in PLACE mode, granted by the service: the service is gone with the mode
C26_Witness ==
    /\ CancelCall
    /\ call.input_mode = "PLACE"
    /\ call.vs_on_cancel_result
    /\ interactor.input_mode = "SELECT"
    /\ interactor.visual_script_service = None

\* C27: whenever the interactor is back in SELECT mode, by the placing click
\* or by ESC, the PythonPart that pick_up_pythonpart had hidden is visible
\* again: in SELECT mode no picked-up PythonPart is hidden and
\* selected_pythonpart is the empty placement.
C27_ShownInSelect ==
    /\ interactor.input_mode = "SELECT" =>
            /\ interactor.hidden = {}
            /\ interactor.selected_pythonpart = NoPythonPart
    /\ interactor.input_mode = "MOVE" /\ ~interactor.terminated =>
            /\ interactor.selected_pythonpart \in PythonParts
            /\ interactor.hidden = {interactor.selected_pythonpart}

\* the placing click: the PythonPart that was picked up is moved, shown
\* again and forgotten
C27_Witness ==
    /\ Click
    /\ call.input_mode = "MOVE"
    /\ interactor.input_mode = "SELECT"
    /\ interactor.hidden = {}
    /\ interactor.selected_pythonpart = NoPythonPart
    /\ interactor.trace_pnt = PlacedAt("PythonPartA")

MenuCall == call.op = "on_cancel_by_menu_function"

\* C28: after on_cancel_by_menu_function, in whatever mode it was called, no
\* PythonPart hidden by pick_up_pythonpart is still hidden.
C28_MenuCancelShows == MenuCall => interactor.hidden = {}

\* C29: process_mouse_msg executes at most one PythonPart transaction for a
\* message, and one only for a message that is no mouse move, received in
\* PLACE mode with a visual script service or in MOVE mode.  A mouse move, a
\* message in SELECT mode and the click that picks a PythonPart up execute
\* none.
C29_OneTransaction ==
    MouseCall =>
        /\ Len(ret.transactions) <= 1
        /\ ret.transactions # <<>> =>
                /\ ~call.is_mouse_move
                /\ call.input_mode \in {"PLACE", "MOVE"}
                /\ call.input_mode = "PLACE" => interactor.visual_script_service # None
                /\ \A i \in DOMAIN ret.transactions :
                       ret.transactions[i].matrix = interactor.placement_matrix
        /\ call.is_mouse_move \/ call.input_mode = "SELECT" => ret.transactions = <<>>

\* the click that picks a PythonPart up executes no transaction
C29_Witness ==
    /\ Click
    /\ call.input_mode = "SELECT"
    /\ call.found \in PythonParts
    /\ interactor.input_mode = "MOVE"
    /\ ret.transactions = <<>>

----------------------------------------------------------------------------
(* The reference element and the polyhedron *)

\* C30: after every snap_by_point call the reference element and the
\* polyhedron agree: a reference element that is not empty has the polyhedron
\* as its geometry, and with an empty reference element the call has not
\* taken the last normal from a polyhedron an earlier element left.
C30_ReferenceAgrees ==
    PointCall =>
        /\ ref_element # NoElement => polyhedron = GetModelGeometry(ref_element)
        /\ ref_element = NoElement => normal_vec = prev.normal_vec

----------------------------------------------------------------------------
(* The element search of the two variants *)

VariantCall == call.op = "snap_by_point" /\ ret # Pending

\* the element search was made: the reference element is what is under the
\* cursor, and a valid polyhedron under the cursor is the one snapped to
SearchMade ==
    /\ ref_element = call.selected
    /\ ValidPolyhedron(call.selected) =>
            CachedAfterSnapTo(GetModelGeometry(call.selected))

\* no element search was made: the reference element is kept and the
\* polyhedron snapped to is the cached one
SearchSkipped ==
    /\ ref_element = prev.ref_element
    /\ CachedAfterSnapTo(prev.polyhedron)

\* C31: the variant of snap_by_point called with a mouse message, a view
\* point and the message info searches the element under the cursor for
\* every view point, (0,0) included; the variant called without a view point
\* makes no search and snaps to the cached polyhedron.
C31_SearchEveryViewPoint ==
    VariantCall =>
        /\ call.variant = "mouse_move" => SearchMade
        /\ call.variant = "no_view_point" => SearchSkipped

============================================================================
